---- MODULE Spec2Model ----
(***************************************************************************)
(* The learning-progress state machine of src/main.py (a Streamlit         *)
(* application).  One script run of main() is one action: the handler of   *)
(* the current step runs from its first line to its end, to the st.rerun() *)
(* that ends it, or to the uncaught exception that aborts it.              *)
(*                                                                         *)
(* Text is modelled as a sequence of tokens (the empty sequence is the     *)
(* empty string), a Python list as a sequence, a dict as a function, an    *)
(* optional value (None or a value) as a sequence of length 0 or 1.        *)
(***************************************************************************)
EXTENDS Integers, Sequences, FiniteSets

\* ------------------------------------------------------------------ bounds
MaxQuiz == 4         \* most questions of a quiz, where quizzes are long
ShortQuiz == 1       \* most questions of a quiz, where every response occurs
EvalQuiz == 5        \* most questions of a quiz given to evaluate by itself
MaxVideos == 2       \* most raw results the video search returns
MaxChat == 2         \* most entries of chat_history
MaxAttempt == 3      \* quiz_attempt is not incremented beyond this
MaxMoves == 2        \* most "Next Video" clicks counted by next_clicks

\* ------------------------------------------------------- program constants
MASTERY_PERCENT == 80
WEAK_AREAS_KEPT == 3
RELATED_KEPT == 5
VIDEO_LIMIT == 10

\* ---------------------------------------------------------------- helpers
Min(a, b) == IF a <= b THEN a ELSE b

\* Python's seq[:n]
Prefix(s, n) == SubSeq(s, 1, Min(n, Len(s)))

\* the elements of a sequence
Range(s) == {s[k] : k \in 1 .. Len(s)}

\* indices 0 .. n-1 of a Python list of length n
Indices(n) == 0 .. (n - 1)

\* class AppState
TOPIC_INPUT == "topic_input"
FETCH_CONTENT == "fetch_content"
LEARNING == "learning"
GENERATE_QUIZ == "generate_quiz"
TAKE_QUIZ == "take_quiz"
EVALUATE == "evaluate"
AppState == {TOPIC_INPUT, FETCH_CONTENT, LEARNING, GENERATE_QUIZ, TAKE_QUIZ, EVALUATE}

\* ------------------------------------------------- the model service
\* One call of Agent.arun: it raises, or returns a response whose content
\* is None (<<>>) or a value (<<c>>).
Raised == [raised |-> TRUE, content |-> <<>>]
NoContent == [raised |-> FALSE, content |-> <<>>]
Content(c) == [raised |-> FALSE, content |-> <<c>>]

\* ------------------------------------------------------------------- text
WS == " "

RECURSIVE lstrip(_)
lstrip(s) == IF s # <<>> /\ Head(s) = WS THEN lstrip(Tail(s)) ELSE s

RECURSIVE rstrip(_)
rstrip(s) ==
    IF s # <<>> /\ s[Len(s)] = WS THEN rstrip(SubSeq(s, 1, Len(s) - 1)) ELSE s

\* str.strip()
strip(s) == rstrip(lstrip(s))

\* ------------------------------------------------ TopicSelectorAgent
GENERAL_TOPIC == <<"General Topic">>

select_topic(response) ==
    IF response.raised
    THEN [raised |-> TRUE, value |-> <<>>]
    ELSE LET content == IF response.content # <<>>
                        THEN response.content[1] ELSE GENERAL_TOPIC
         IN  [raised |-> FALSE, value |-> strip(content)]

\* ------------------------------------------------ VideoRetrieverAgent
\* A raw search result: videoId is absent (<<>>) or present (<<id>>).
Video(raw) == [video_id |-> raw.videoId[1], title |-> raw.title]

RECURSIVE fetch_loop(_, _, _)
fetch_loop(video_results, videos, limit) ==
    IF video_results = <<>>
    THEN videos
    ELSE LET video == Head(video_results)
         IN  IF video.videoId = <<>>
             THEN fetch_loop(Tail(video_results), videos, limit)
             ELSE LET appended == Append(videos, Video(video))
                  IN  IF Len(appended) >= limit
                      THEN appended
                      ELSE fetch_loop(Tail(video_results), appended, limit)

\* search: [raised, results]; an exception anywhere inside is caught
fetch_videos(search, limit) ==
    IF search.raised THEN <<>> ELSE fetch_loop(search.results, <<>>, limit)

\* -------------------------------------------------- DocGeneratorAgent
DOC_NOT_AVAILABLE == <<"Documentation not available.">>

generate_docs(response) ==
    IF response.raised
    THEN [raised |-> TRUE, value |-> <<>>]
    ELSE [raised |-> FALSE,
          value |-> IF response.content # <<>>
                    THEN response.content[1] ELSE DOC_NOT_AVAILABLE]

\* ------------------------------------------------- QuizGeneratorAgent
\* What json.loads returns: a list (its items are the elements), or a dict
\* (its items are what iterating it yields: the keys).
EmptyList == [type |-> "array", items |-> <<>>]

\* The quiz-generation response text, as lexical tokens.
Tok(t) == [tok |-> t, value |-> EmptyList]
FENCE == Tok("fence")      \* three backticks
JSONWORD == Tok("json")
SPACE == Tok(" ")
PROSE == Tok("prose")
Value(v) == [tok |-> "value", value |-> v]

RECURSIVE lstrip_toks(_)
lstrip_toks(s) == IF s # <<>> /\ Head(s) = SPACE THEN lstrip_toks(Tail(s)) ELSE s

RECURSIVE rstrip_toks(_)
rstrip_toks(s) ==
    IF s # <<>> /\ s[Len(s)] = SPACE
    THEN rstrip_toks(SubSeq(s, 1, Len(s) - 1)) ELSE s

strip_toks(s) == rstrip_toks(lstrip_toks(s))

\* the text before the first fence
RECURSIVE until_fence(_)
until_fence(s) ==
    IF s = <<>> \/ Head(s) = FENCE THEN <<>>
    ELSE <<Head(s)>> \o until_fence(Tail(s))

\* content.split(FENCE)[1], for a content that starts with a fence
split_fence_1(s) == until_fence(Tail(s))

\* json.loads: the text parses iff it is one JSON value
json_loads(s) ==
    IF Len(s) = 1 /\ s[1].tok = "value"
    THEN [raised |-> FALSE, value |-> s[1].value]
    ELSE [raised |-> TRUE, value |-> EmptyList]

generate_quiz(response) ==
    IF response.raised
    THEN [raised |-> TRUE, value |-> EmptyList]
    ELSE IF response.content = <<>>
    THEN [raised |-> FALSE, value |-> EmptyList]
    ELSE LET c1 == strip_toks(response.content[1])
             c2 == IF c1 # <<>> /\ Head(c1) = FENCE
                   THEN LET seg == split_fence_1(c1)
                        IN  IF seg # <<>> /\ Head(seg) = JSONWORD
                            THEN Tail(seg) ELSE seg
                   ELSE c1
             quiz_data == json_loads(strip_toks(c2))
         IN  [raised |-> FALSE,
              value |-> IF quiz_data.raised THEN EmptyList ELSE quiz_data.value]

\* ----------------------------------------------------- EvaluatorAgent
\* q[key] of a quiz element: a dict element answers for the keys it has; a
\* str element (a key of a dict quiz) raises on any string subscript.
HasKey(q, key) == q.kind = "dict" /\ key \in q.has

\* dict.get(i, default)
Get(answers, i, default) == IF i \in DOMAIN answers THEN answers[i] ELSE default

\* the loop with a slip: a question without an answer is passed over
\* instead of being recorded as weak
RECURSIVE eval_loop_skips_unanswered(_, _, _, _, _)
eval_loop_skips_unanswered(items, i, answers, correct_count, weak_topics) ==
    IF items = <<>>
    THEN [raised |-> FALSE, correct_count |-> correct_count,
          weak_topics |-> weak_topics]
    ELSE LET q == Head(items)
         IN  IF ~HasKey(q, "correct")
             THEN [raised |-> TRUE, correct_count |-> correct_count,
                   weak_topics |-> weak_topics]
             ELSE IF i \notin DOMAIN answers
             THEN eval_loop_skips_unanswered(Tail(items), i + 1, answers,
                                             correct_count, weak_topics)
             ELSE IF answers[i] = q.correct
             THEN eval_loop_skips_unanswered(Tail(items), i + 1, answers,
                                             correct_count + 1, weak_topics)
             ELSE IF ~HasKey(q, "question")
             THEN [raised |-> TRUE, correct_count |-> correct_count,
                   weak_topics |-> weak_topics]
             ELSE eval_loop_skips_unanswered(Tail(items), i + 1, answers,
                                             correct_count,
                                             Append(weak_topics, q.question))

\* the loop of evaluate over enumerate(quiz), from index i on
RECURSIVE eval_loop(_, _, _, _, _)
eval_loop(items, i, answers, correct_count, weak_topics) ==
    IF items = <<>>
    THEN [raised |-> FALSE, correct_count |-> correct_count,
          weak_topics |-> weak_topics]
    ELSE LET q == Head(items)
             user_answer == Get(answers, i, -1)
         IN  IF ~HasKey(q, "correct")
             THEN [raised |-> TRUE, correct_count |-> correct_count,
                   weak_topics |-> weak_topics]
             ELSE IF user_answer = q.correct
             THEN eval_loop(Tail(items), i + 1, answers,
                            correct_count + 1, weak_topics)
             ELSE IF ~HasKey(q, "question")
             THEN [raised |-> TRUE, correct_count |-> correct_count,
                   weak_topics |-> weak_topics]
             ELSE eval_loop(Tail(items), i + 1, answers,
                            correct_count, Append(weak_topics, q.question))

\* the percentage with a slip: an empty quiz counts as full marks
score_percent_empty_is_full(correct_count, total) ==
    IF total > 0
    THEN [num |-> correct_count * 100, den |-> total]
    ELSE [num |-> 100, den |-> 1]

\* (correct_count / total * 100) if total > 0 else 0, as the exact fraction
score_percent(correct_count, total) ==
    IF total > 0
    THEN [num |-> correct_count * 100, den |-> total]
    ELSE [num |-> 0, den |-> 1]

\* the threshold with a slip: strictly above 80
mastery_strictly_above(percent) == percent.num > MASTERY_PERCENT * percent.den

\* score_percent >= 80
mastery(percent) == percent.num >= MASTERY_PERCENT * percent.den

FEEDBACK_NOT_AVAILABLE == <<"Feedback not available.">>

NoResult ==
    [score |-> 0, total |-> 0, percentage |-> [num |-> 0, den |-> 1],
     mastery |-> FALSE, feedback |-> <<>>, weak_areas |-> <<>>]

\* `requested`: the loop did not raise, so the feedback request was made
evaluate(quiz, answers, response) ==
    LET total == Len(quiz.items)
        loop == eval_loop(quiz.items, 0, answers, 0, <<>>)
        percent == score_percent(loop.correct_count, total)
    IN  IF loop.raised \/ response.raised
        THEN [raised |-> TRUE, requested |-> ~loop.raised, value |-> NoResult]
        ELSE [raised |-> FALSE, requested |-> TRUE,
              value |-> [score |-> loop.correct_count,
                         total |-> total,
                         percentage |-> percent,
                         mastery |-> mastery(percent),
                         feedback |-> IF response.content # <<>>
                                      THEN response.content[1]
                                      ELSE FEEDBACK_NOT_AVAILABLE,
                         weak_areas |-> loop.weak_topics]]

\* ------------------------------------------------------------ QAAgent
ANSWER_NOT_AVAILABLE == <<"Answer not available.">>

answer_question(response) ==
    IF response.raised
    THEN [raised |-> TRUE, value |-> <<>>]
    ELSE [raised |-> FALSE,
          value |-> IF response.content # <<>>
                    THEN response.content[1] ELSE ANSWER_NOT_AVAILABLE]

\* ------------------------------------------------- RelatedTopicsAgent
\* The response is the sequence of its lines (content.split on newlines);
\* a line is a sequence of characters and words.
Digits == {"1", "2", "3"}
MarkerChars == Digits \cup {".", "-", "*", WS}

\* line.lstrip("0123456789.-* ")
RECURSIVE lstrip_markers(_)
lstrip_markers(s) ==
    IF s # <<>> /\ Head(s) \in MarkerChars THEN lstrip_markers(Tail(s)) ELSE s

RECURSIVE topics_loop(_, _)
topics_loop(lines, topics) ==
    IF lines = <<>>
    THEN topics
    ELSE LET line == strip(Head(lines))
         IN  IF line # <<>> /\ (line[1] \in Digits \/ line[1] = "-" \/ line[1] = "*")
             THEN LET topic_text == strip(lstrip_markers(line))
                  IN  IF topic_text # <<>>
                      THEN topics_loop(Tail(lines), Append(topics, topic_text))
                      ELSE topics_loop(Tail(lines), topics)
             ELSE topics_loop(Tail(lines), topics)

\* the agent with a slip: every topic found is returned
get_related_topics_uncut(response) ==
    IF response.raised
    THEN [raised |-> TRUE, value |-> <<>>]
    ELSE LET content == IF response.content # <<>>
                        THEN response.content[1] ELSE << <<>> >>
         IN  [raised |-> FALSE, value |-> topics_loop(content, <<>>)]

\* RelatedTopicsAgent.get_related_topics
get_related_topics(response) ==
    IF response.raised
    THEN [raised |-> TRUE, value |-> <<>>]
    ELSE LET content == IF response.content # <<>>
                        THEN response.content[1] ELSE << <<>> >>
         IN  [raised |-> FALSE,
              value |-> Prefix(topics_loop(content, <<>>), RELATED_KEPT)]

\* ===================================================== the session
VARIABLES
    env_key,              \* os.getenv("GEMINI_API_KEY"), "" when unset
    sidebar_key,          \* the value of the sidebar's key input
    present,              \* the keys st.session_state holds
    current_step, topic, videos, current_video_index, documentation,
    quiz, user_answers, weak_areas, quiz_attempt, mastery_achieved,
    chat_history, related_topics,
    pc,                   \* "rerun": a script run is due; "idle": the page waits
    widgets,              \* the widgets the last script run rendered
    aborted,              \* the last script run ended in an uncaught exception
    results,              \* the evaluation the last run computed, <<>> if none
    calls,                \* the agents the last script run called
    failed,               \* the agents whose service raised in the last script run
    hint,                 \* the weak areas the last generate_quiz call was given
    next_clicks           \* "Next Video" clicks since the fetch, -1: not counted

keys == <<env_key, sidebar_key>>
content == <<topic, videos, current_video_index, documentation>>
quiz_state == <<quiz, user_answers, weak_areas, quiz_attempt>>
session == <<present, current_step, content, quiz_state, mastery_achieved,
             chat_history, related_topics>>
run_state == <<pc, widgets, aborted, results, calls, failed, hint>>
vars == <<keys, session, run_state, next_clicks>>

\* class SessionData: the fields and their defaults
SessionKeys ==
    {"current_step", "topic", "videos", "current_video_index", "documentation",
     "quiz", "user_answers", "weak_areas", "quiz_attempt", "mastery_achieved",
     "chat_history", "related_topics"}

SessionData ==
    [current_step |-> TOPIC_INPUT, topic |-> <<>>, videos |-> <<>>,
     current_video_index |-> 0, documentation |-> <<>>, quiz |-> EmptyList,
     user_answers |-> <<>>, weak_areas |-> <<>>, quiz_attempt |-> 1,
     mastery_achieved |-> FALSE, chat_history |-> <<>>, related_topics |-> <<>>]

\* A key st.session_state does not hold has no value; the model keeps the
\* default in its variable, which is what initialize_session_state stores
\* at the start of the next script run.
AtDefaults ==
    /\ current_step = SessionData.current_step
    /\ topic = SessionData.topic
    /\ videos = SessionData.videos
    /\ current_video_index = SessionData.current_video_index
    /\ documentation = SessionData.documentation
    /\ quiz = SessionData.quiz
    /\ user_answers = SessionData.user_answers
    /\ weak_areas = SessionData.weak_areas
    /\ quiz_attempt = SessionData.quiz_attempt
    /\ mastery_achieved = SessionData.mastery_achieved
    /\ chat_history = SessionData.chat_history
    /\ related_topics = SessionData.related_topics

\* the state of a browser session before the first script run, the
\* environment holding the key env
Start(env) ==
    /\ env_key = env
    /\ sidebar_key = ""
    /\ present = {}
    /\ AtDefaults
    /\ pc = "rerun"
    /\ widgets = {}
    /\ aborted = FALSE
    /\ results = <<>>
    /\ calls = {}
    /\ failed = {}
    /\ hint = <<>>
    /\ next_clicks = -1

\* the environment holds no key: the user types it into the sidebar
Init == Start("")

\* main(): the key from the environment, else from the sidebar
api_key == IF env_key # "" THEN env_key ELSE sidebar_key

\* a script run is due and main() reaches state_machine.run()
Rerun == pc = "rerun" /\ api_key # ""

\* the user acts on widget w of the page
Event(w) == pc = "idle" /\ w \in widgets

\* LearningStateMachine._initialize_session_state
initialize_session_state == present' = SessionKeys

\* LearningStateMachine.transition_to: set the step, st.rerun()
transition_to(new_state) ==
    /\ current_step' = new_state
    /\ pc' = "rerun"
    /\ widgets' = {}
    /\ aborted' = FALSE

\* the script run ends with the page showing the widgets w
Rendered(w) ==
    /\ pc' = "idle"
    /\ widgets' = w
    /\ aborted' = FALSE

\* an uncaught exception ends the script run; the widgets w were rendered
Abort(w) ==
    /\ pc' = "idle"
    /\ widgets' = w
    /\ aborted' = TRUE

\* what the script run did: the agents called, those that failed, the
\* evaluation computed and the hint given to generate_quiz
Report(c, f, r, h) ==
    /\ calls' = c
    /\ failed' = f
    /\ results' = r
    /\ hint' = h

\* main() with a slip: the state machine is constructed before the key is
\* looked at, so the session state is initialised
main_no_key_initializes ==
    /\ pc = "rerun"
    /\ api_key = ""
    /\ initialize_session_state
    /\ Rendered({})
    /\ Report({}, {}, <<>>, <<>>)
    /\ UNCHANGED <<keys, current_step, content, quiz_state, mastery_achieved,
                   chat_history, related_topics, next_clicks>>

\* main() without a key: a warning, and return
main_no_key ==
    /\ pc = "rerun"
    /\ api_key = ""
    /\ Rendered({})
    /\ Report({}, {}, <<>>, <<>>)
    /\ UNCHANGED <<keys, session, next_clicks>>

\* the user changes the key in the sidebar input, which main() renders when
\* the environment has no key; the change triggers a script run
KeyInputs == {"", "key"}

sidebar_input ==
    /\ pc = "idle"
    /\ env_key = ""
    /\ \E k \in KeyInputs :
        /\ k # sidebar_key
        /\ sidebar_key' = k
    /\ pc' = "rerun"
    /\ UNCHANGED <<env_key, session, widgets, aborted, results, calls, failed,
                   hint, next_clicks>>

\* ------------------------------------------------- handle_topic_input
UserTopics == {<<>>, <<"binary search">>}
TopicResponses == {Raised, NoContent, Content(<<WS, "Binary Search", WS>>)}

\* the form is rendered; the button was not clicked
show_topic_input ==
    /\ Rerun
    /\ current_step = TOPIC_INPUT
    /\ initialize_session_state
    /\ Rendered({"start_learning"})
    /\ Report({}, {}, <<>>, <<>>)
    /\ UNCHANGED <<keys, current_step, content, quiz_state, mastery_achieved,
                   chat_history, related_topics, next_clicks>>

\* "Start Learning" with a slip: the text is not tested for emptiness
handle_topic_input_unchecked(user_topic, response) ==
    /\ Event("start_learning")
    /\ initialize_session_state
    /\ LET refined == select_topic(response)
       IN  IF refined.raised
           THEN /\ Report({"topic"}, {"topic"}, <<>>, <<>>)
                /\ Abort({"start_learning"})
                /\ UNCHANGED <<current_step, topic>>
           ELSE /\ Report({"topic"}, {}, <<>>, <<>>)
                /\ topic' = refined.value
                /\ transition_to(FETCH_CONTENT)
    /\ UNCHANGED <<keys, videos, current_video_index, documentation, quiz_state,
                   mastery_achieved, chat_history, related_topics, next_clicks>>

\* "Start Learning" clicked with user_topic in the text input
handle_topic_input(user_topic, response) ==
    /\ Event("start_learning")
    /\ initialize_session_state
    /\ IF user_topic # <<>>
       THEN LET refined == select_topic(response)
            IN  IF refined.raised
                THEN /\ Report({"topic"}, {"topic"}, <<>>, <<>>)
                     /\ Abort({"start_learning"})
                     /\ UNCHANGED <<current_step, topic>>
                ELSE /\ Report({"topic"}, {}, <<>>, <<>>)
                     /\ topic' = refined.value
                     /\ transition_to(FETCH_CONTENT)
       ELSE /\ Report({}, {}, <<>>, <<>>)
            /\ Rendered({"start_learning", "please_enter_a_topic"})
            /\ UNCHANGED <<current_step, topic>>
    /\ UNCHANGED <<keys, videos, current_video_index, documentation, quiz_state,
                   mastery_achieved, chat_history, related_topics, next_clicks>>

start_learning ==
    \E user_topic \in UserTopics, response \in TopicResponses :
        handle_topic_input(user_topic, response)

\* ----------------------------------------------- handle_fetch_content
\* what the video search can return for a query: an exception, or up to
\* MaxVideos results with a videoId, possibly after one result without
RawResult(topic_, k) == [videoId |-> <<k>>, title |-> topic_]
NoIdResult(topic_) == [videoId |-> <<>>, title |-> topic_]

SearchOutcomes(topic_) ==
    {[raised |-> TRUE, results |-> <<>>]} \cup
    {[raised |-> FALSE,
      results |-> lead \o [k \in 1 .. n |-> RawResult(topic_, k)]] :
        n \in 0 .. MaxVideos, lead \in {<<>>, <<NoIdResult(topic_)>>}}

DocResponses(topic_) ==
    {Raised, NoContent, Content(<<>>), Content(<<"doc">> \o topic_)}

handle_fetch_content(search, response) ==
    /\ Rerun
    /\ current_step = FETCH_CONTENT
    /\ initialize_session_state
    /\ LET fetch == videos = <<>>
           generate == documentation = <<>>
           docs == generate_docs(response)
       IN  /\ IF fetch
              THEN /\ videos' = fetch_videos(search, VIDEO_LIMIT)
                   /\ current_video_index' = 0
                   /\ next_clicks' = 0
              ELSE UNCHANGED <<videos, current_video_index, next_clicks>>
           /\ Report((IF fetch THEN {"video"} ELSE {})
                         \cup (IF generate THEN {"doc"} ELSE {}),
                     (IF fetch /\ search.raised THEN {"video"} ELSE {})
                         \cup (IF generate /\ docs.raised THEN {"doc"} ELSE {}),
                     <<>>, <<>>)
           /\ IF generate /\ docs.raised
              THEN /\ Abort({})
                   /\ UNCHANGED <<current_step, documentation>>
              ELSE /\ documentation' = (IF generate THEN docs.value
                                        ELSE documentation)
                   /\ transition_to(LEARNING)
    /\ UNCHANGED <<keys, topic, quiz_state, mastery_achieved, chat_history,
                   related_topics>>

fetch_content ==
    \E search \in SearchOutcomes(topic), response \in DocResponses(topic) :
        handle_fetch_content(search, response)

\* ---------------------------------------------------- handle_learning
\* seq[idx] of a Python list of length n does not raise
IndexOk(idx, n) == -n <= idx /\ idx < n

\* the widgets of the Learning page: render_study_material, render_chatbot
LearningWidgets ==
    (IF videos # <<>> THEN {"previous", "next"} ELSE {})
        \cup {"take_quiz", "chat_input"}

\* the page is rendered; nothing was clicked
show_learning ==
    /\ Rerun
    /\ current_step = LEARNING
    /\ initialize_session_state
    /\ IF videos # <<>> /\ ~IndexOk(current_video_index, Len(videos))
       THEN Abort({})
       ELSE Rendered(LearningWidgets)
    /\ Report({}, {}, <<>>, <<>>)
    /\ UNCHANGED <<keys, current_step, content, quiz_state, mastery_achieved,
                   chat_history, related_topics, next_clicks>>

\* (current_video_index - 1) % len(videos)
previous_index(index, length) == (index - 1) % length

\* the step forward with a slip: no wrap at the end of the list
next_index_without_wrap(index, length) == index + 1

\* (current_video_index + 1) % len(videos)
next_index(index, length) == (index + 1) % length

\* "Previous Video"
click_previous ==
    /\ Event("previous")
    /\ initialize_session_state
    /\ current_video_index' = previous_index(current_video_index, Len(videos))
    /\ next_clicks' = -1
    /\ pc' = "rerun"
    /\ widgets' = {}
    /\ aborted' = FALSE
    /\ Report({}, {}, <<>>, <<>>)
    /\ UNCHANGED <<keys, current_step, topic, videos, documentation, quiz_state,
                   mastery_achieved, chat_history, related_topics>>

\* "Next Video"
click_next ==
    /\ Event("next")
    /\ initialize_session_state
    /\ current_video_index' = next_index(current_video_index, Len(videos))
    /\ next_clicks' = IF next_clicks >= 0 /\ next_clicks < MaxMoves
                      THEN next_clicks + 1 ELSE -1
    /\ pc' = "rerun"
    /\ widgets' = {}
    /\ aborted' = FALSE
    /\ Report({}, {}, <<>>, <<>>)
    /\ UNCHANGED <<keys, current_step, topic, videos, documentation, quiz_state,
                   mastery_achieved, chat_history, related_topics>>

\* "Take a quiz" with a slip: straight to the form, no quiz generated
click_take_quiz_skips_generation ==
    /\ Event("take_quiz")
    /\ initialize_session_state
    /\ transition_to(TAKE_QUIZ)
    /\ next_clicks' = -1
    /\ Report({}, {}, <<>>, <<>>)
    /\ UNCHANGED <<keys, content, quiz_state, mastery_achieved, chat_history,
                   related_topics>>

\* "Take a quiz"
click_take_quiz ==
    /\ Event("take_quiz")
    /\ initialize_session_state
    /\ transition_to(GENERATE_QUIZ)
    /\ next_clicks' = -1
    /\ Report({}, {}, <<>>, <<>>)
    /\ UNCHANGED <<keys, content, quiz_state, mastery_achieved, chat_history,
                   related_topics>>

UserQuestions == {<<"why">>}
AnswerResponses == {Raised, NoContent, Content(<<"because">>)}

\* the chatbot with a slip: the history is replaced by the new pair
render_chatbot_forgets(user_question, response) ==
    /\ Event("chat_input")
    /\ Len(chat_history) < MaxChat
    /\ initialize_session_state
    /\ LET answer == answer_question(response)
       IN  IF answer.raised
           THEN /\ Report({"qa"}, {"qa"}, <<>>, <<>>)
                /\ Abort(LearningWidgets)
                /\ UNCHANGED chat_history
           ELSE /\ Report({"qa"}, {}, <<>>, <<>>)
                /\ chat_history' =
                       <<[question |-> user_question, answer |-> answer.value]>>
                /\ pc' = "rerun"
                /\ widgets' = {}
                /\ aborted' = FALSE
    /\ UNCHANGED <<keys, current_step, content, quiz_state, mastery_achieved,
                   related_topics, next_clicks>>

\* render_chatbot with a question typed into the chat input
render_chatbot(user_question, response) ==
    /\ Event("chat_input")
    /\ Len(chat_history) < MaxChat
    /\ initialize_session_state
    /\ LET answer == answer_question(response)
       IN  IF answer.raised
           THEN /\ Report({"qa"}, {"qa"}, <<>>, <<>>)
                /\ Abort(LearningWidgets)
                /\ UNCHANGED chat_history
           ELSE /\ Report({"qa"}, {}, <<>>, <<>>)
                /\ chat_history' =
                       Append(chat_history,
                              [question |-> user_question, answer |-> answer.value])
                /\ pc' = "rerun"
                /\ widgets' = {}
                /\ aborted' = FALSE
    /\ UNCHANGED <<keys, current_step, content, quiz_state, mastery_achieved,
                   related_topics, next_clicks>>

ask_question ==
    \E user_question \in UserQuestions, response \in AnswerResponses :
        render_chatbot(user_question, response)

\* ----------------------------------------------- handle_generate_quiz
QuestionKeys == {"question", "options", "correct", "explanation"}

\* question k of a generated quiz, its correct option being c
Question(k, c) ==
    [kind |-> "dict", has |-> QuestionKeys, question |-> <<"question", k>>,
     options |-> <<"A", "B">>, correct |-> c]

\* a well-formed quiz of n questions
QuizOf(n) == [type |-> "array", items |-> [k \in 1 .. n |-> Question(k, k % 2)]]

\* a list whose one object lacks the "correct" field
NoCorrectQuiz ==
    [type |-> "array",
     items |-> <<[Question(1, 0) EXCEPT !.has = {"question", "options"}]>>]

\* a list whose one question has a correct index outside its options
BadIndexQuiz == [type |-> "array", items |-> <<Question(1, 7)>>]

\* a JSON object, {"questions": [...]}: iterating it yields its one key
ObjectQuiz ==
    [type |-> "object",
     items |-> <<[kind |-> "str", has |-> {}, question |-> <<>>,
                  options |-> <<>>, correct |-> 0]>>]

\* the responses that hold a well-formed quiz of n questions
GoodQuizResponses(n) ==
    {Content(<<Value(QuizOf(n))>>),
     Content(<<FENCE, JSONWORD, SPACE, Value(QuizOf(n)), SPACE, FENCE>>),
     Content(<<SPACE, FENCE, Value(QuizOf(n)), FENCE, SPACE>>)}

\* every kind of response, with quizzes of up to ShortQuiz questions
QuizResponses ==
    {Raised, NoContent,
     Content(<<PROSE>>),
     Content(<<PROSE, FENCE, JSONWORD, Value(QuizOf(1)), FENCE>>),
     Content(<<FENCE, SPACE, JSONWORD, Value(QuizOf(1)), FENCE>>),
     Content(<<Value(NoCorrectQuiz)>>),
     Content(<<Value(BadIndexQuiz)>>),
     Content(<<Value(ObjectQuiz)>>)}
    \cup UNION {GoodQuizResponses(n) : n \in 0 .. ShortQuiz}

\* the handler with a slip: the answers to the last quiz are kept
handle_generate_quiz_keeps_answers(response) ==
    /\ Rerun
    /\ current_step = GENERATE_QUIZ
    /\ initialize_session_state
    /\ LET weak_areas_to_pass == IF weak_areas # <<>> THEN <<weak_areas>> ELSE <<>>
           generated == generate_quiz(response)
       IN  IF generated.raised
           THEN /\ Report({"quiz"}, {"quiz"}, <<>>, weak_areas_to_pass)
                /\ Abort({})
                /\ UNCHANGED <<current_step, quiz>>
           ELSE /\ Report({"quiz"}, {}, <<>>, weak_areas_to_pass)
                /\ quiz' = generated.value
                /\ transition_to(TAKE_QUIZ)
    /\ UNCHANGED <<keys, content, user_answers, weak_areas, quiz_attempt,
                   mastery_achieved, chat_history, related_topics, next_clicks>>

\* LearningStateMachine.handle_generate_quiz
handle_generate_quiz(response) ==
    /\ Rerun
    /\ current_step = GENERATE_QUIZ
    /\ initialize_session_state
    /\ LET weak_areas_to_pass == IF weak_areas # <<>> THEN <<weak_areas>> ELSE <<>>
           generated == generate_quiz(response)
       IN  IF generated.raised
           THEN /\ Report({"quiz"}, {"quiz"}, <<>>, weak_areas_to_pass)
                /\ Abort({})
                /\ UNCHANGED <<current_step, quiz, user_answers>>
           ELSE /\ Report({"quiz"}, {}, <<>>, weak_areas_to_pass)
                /\ quiz' = generated.value
                /\ user_answers' = <<>>
                /\ transition_to(TAKE_QUIZ)
    /\ UNCHANGED <<keys, content, weak_areas, quiz_attempt, mastery_achieved,
                   chat_history, related_topics, next_clicks>>

generate ==
    \E response \in QuizResponses : handle_generate_quiz(response)

\* --------------------------------------------------- handle_take_quiz
\* the loop body renders q["question"] and a radio over q["options"]
Renderable(q) == HasKey(q, "question") /\ HasKey(q, "options")

\* how many elements the loop over enumerate(quiz) passes before it raises
RECURSIVE rendered_count(_)
rendered_count(items) ==
    IF items = <<>> \/ ~Renderable(Head(items))
    THEN 0
    ELSE 1 + rendered_count(Tail(items))

\* user_answers[i] = answer for the first n questions, the rest kept
store_answers(answers, selection, n) ==
    [i \in DOMAIN answers \cup Indices(n) |->
        IF i \in Indices(n) THEN selection[i] ELSE answers[i]]

\* what the radios of a form can hold: an option index for each question
Selections(items) ==
    {f \in [Indices(Len(items)) -> UNION {Indices(Len(q.options)) : q \in Range(items)}] :
        \A i \in Indices(Len(items)) : f[i] \in Indices(Len(items[i + 1].options))}

\* a radio nobody touched holds its first option
DefaultSelection(items) == [i \in Indices(Len(items)) |-> 0]

\* the form is rendered; it was not submitted
show_take_quiz ==
    /\ Rerun
    /\ current_step = TAKE_QUIZ
    /\ initialize_session_state
    /\ LET n == rendered_count(quiz.items)
       IN  /\ user_answers' =
                  store_answers(user_answers, DefaultSelection(quiz.items), n)
           /\ IF n < Len(quiz.items)
              THEN Abort({})
              ELSE Rendered({"submit_quiz"})
    /\ Report({}, {}, <<>>, <<>>)
    /\ UNCHANGED <<keys, current_step, content, quiz, weak_areas, quiz_attempt,
                   mastery_achieved, chat_history, related_topics, next_clicks>>

\* "Submit Quiz" with the radios holding selection
handle_take_quiz(selection) ==
    /\ Event("submit_quiz")
    /\ initialize_session_state
    /\ user_answers' = store_answers(user_answers, selection, Len(quiz.items))
    /\ transition_to(EVALUATE)
    /\ Report({}, {}, <<>>, <<>>)
    /\ UNCHANGED <<keys, content, quiz, weak_areas, quiz_attempt,
                   mastery_achieved, chat_history, related_topics, next_clicks>>

submit_quiz ==
    \E selection \in Selections(quiz.items) : handle_take_quiz(selection)

\* ---------------------------------------------------- handle_evaluate
FeedbackResponses == {Raised, NoContent, Content(<<"feedback">>)}

Line(n, text) == <<n, ".", WS>> \o text
ManyLines ==
    <<Line("1", <<"Sorting">>), Line("2", <<"Binary Search">>),
      <<"-", WS, "Sorting">>, <<"*", "Binary Search">>,
      Line("3", <<"Sorting">>), Line("1", <<"Binary Search">>)>>

RelatedResponses ==
    {Raised, NoContent,
     Content(<< <<"Here", WS, "you", WS, "go">>, <<"1", ".", WS>> >>),
     Content(<< <<"Sure">>, <<WS, "1", ".", WS, "Sorting", WS>> >>),
     Content(ManyLines)}

\* the reset with a slip: chat_history is not deleted
reset_state_keeps_chat(kept, step, topic_) ==
    /\ present' = kept \cup {"chat_history"}
    /\ current_step' = step
    /\ topic' = topic_
    /\ videos' = SessionData.videos
    /\ current_video_index' = SessionData.current_video_index
    /\ documentation' = SessionData.documentation
    /\ quiz' = SessionData.quiz
    /\ user_answers' = SessionData.user_answers
    /\ weak_areas' = SessionData.weak_areas
    /\ quiz_attempt' = SessionData.quiz_attempt
    /\ mastery_achieved' = SessionData.mastery_achieved
    /\ chat_history' = chat_history
    /\ related_topics' = SessionData.related_topics
    /\ next_clicks' = -1
    /\ pc' = "rerun"
    /\ widgets' = {}
    /\ aborted' = FALSE

\* LearningStateMachine.reset_state, then the assignments that follow it:
\* every key is deleted and the keys `kept` are set again
reset_state(kept, step, topic_) ==
    /\ present' = kept
    /\ current_step' = step
    /\ topic' = topic_
    /\ videos' = SessionData.videos
    /\ current_video_index' = SessionData.current_video_index
    /\ documentation' = SessionData.documentation
    /\ quiz' = SessionData.quiz
    /\ user_answers' = SessionData.user_answers
    /\ weak_areas' = SessionData.weak_areas
    /\ quiz_attempt' = SessionData.quiz_attempt
    /\ mastery_achieved' = SessionData.mastery_achieved
    /\ chat_history' = SessionData.chat_history
    /\ related_topics' = SessionData.related_topics
    /\ next_clicks' = -1
    /\ pc' = "rerun"
    /\ widgets' = {}
    /\ aborted' = FALSE

\* the Answer Review loop of render_quiz_results does not raise on q
ReviewOk(q, user_ans) ==
    /\ HasKey(q, "correct")
    /\ HasKey(q, "question")
    /\ HasKey(q, "options")
    /\ user_ans >= 0 => IndexOk(user_ans, Len(q.options))
    /\ IndexOk(q.correct, Len(q.options))

\* the stored list with a slip: every weak area is kept
kept_weak_areas_uncut(weak) == weak

\* what the retry section stores of the evaluation's weak areas
kept_weak_areas(weak) == Prefix(weak, WEAK_AREAS_KEPT)

next_attempt(attempt) == attempt + 1

\* the mastery section with a slip: "Learn" sets the step and the topic
\* without resetting the session
render_mastery_section_without_reset(event, i, related) ==
    IF event = "learn" /\ i \in 1 .. Len(related)
    THEN /\ topic' = related[i]
         /\ transition_to(FETCH_CONTENT)
         /\ initialize_session_state
         /\ related_topics' = related
         /\ UNCHANGED <<videos, current_video_index, documentation, quiz_state,
                        mastery_achieved, chat_history, next_clicks>>
    ELSE IF event = "another"
    THEN reset_state({}, SessionData.current_step, SessionData.topic)
    ELSE /\ Rendered((IF related # <<>> THEN {"learn"} ELSE {}) \cup {"another"})
         /\ initialize_session_state
         /\ related_topics' = related
         /\ UNCHANGED <<current_step, content, quiz_state, mastery_achieved,
                        chat_history, next_clicks>>

\* LearningStateMachine._render_mastery_section
render_mastery_section(event, i, related) ==
    IF event = "learn" /\ i \in 1 .. Len(related)
    THEN reset_state({"current_step", "topic"}, FETCH_CONTENT, related[i])
    ELSE IF event = "another"
    THEN reset_state({}, SessionData.current_step, SessionData.topic)
    ELSE /\ Rendered((IF related # <<>> THEN {"learn"} ELSE {}) \cup {"another"})
         /\ initialize_session_state
         /\ related_topics' = related
         /\ UNCHANGED <<current_step, content, quiz_state, mastery_achieved,
                        chat_history, next_clicks>>

render_retry_section(event, result) ==
    /\ quiz_attempt < MaxAttempt
    /\ initialize_session_state
    /\ weak_areas' = kept_weak_areas(result.weak_areas)
    /\ quiz_attempt' = next_attempt(quiz_attempt)
    /\ IF event = "retry"
       THEN transition_to(GENERATE_QUIZ)
       ELSE IF event = "study_again"
       THEN transition_to(LEARNING)
       ELSE /\ Rendered({"retry", "study_again"})
            /\ UNCHANGED current_step
    /\ UNCHANGED <<content, quiz, user_answers, mastery_achieved, chat_history,
                   related_topics, next_clicks>>

\* the related-topics request is made
related_wanted(is_mastery, related) == is_mastery /\ related = <<>>

\* the results page with a slip: the two sections are taken for each other
render_quiz_results_sections_swapped(event, i, result, related, called) ==
    LET review_ok ==
            \A k \in 1 .. Len(quiz.items) :
                ReviewOk(quiz.items[k], Get(user_answers, k - 1, -1))
    IN  IF related.raised
        THEN /\ Report(called, {"related"}, <<result>>, <<>>)
             /\ Abort({})
             /\ initialize_session_state
             /\ UNCHANGED <<current_step, content, quiz_state, mastery_achieved,
                            chat_history, related_topics, next_clicks>>
        ELSE IF ~review_ok
        THEN /\ Report(called, {}, <<result>>, <<>>)
             /\ Abort({})
             /\ initialize_session_state
             /\ related_topics' = related.value
             /\ UNCHANGED <<current_step, content, quiz_state, mastery_achieved,
                            chat_history, next_clicks>>
        ELSE /\ Report(called, {}, <<result>>, <<>>)
             /\ IF result.mastery
                THEN render_retry_section(event, result)
                ELSE render_mastery_section(event, i, related.value)

\* handle_evaluate from the point where related_topics is settled: `related`
\* is its value, or the request that was to set it raised
render_quiz_results(event, i, result, related, called) ==
    LET review_ok ==
            \A k \in 1 .. Len(quiz.items) :
                ReviewOk(quiz.items[k], Get(user_answers, k - 1, -1))
    IN  IF related.raised
        THEN /\ Report(called, {"related"}, <<result>>, <<>>)
             /\ Abort({})
             /\ initialize_session_state
             /\ UNCHANGED <<current_step, content, quiz_state, mastery_achieved,
                            chat_history, related_topics, next_clicks>>
        ELSE IF ~review_ok
        THEN /\ Report(called, {}, <<result>>, <<>>)
             /\ Abort({})
             /\ initialize_session_state
             /\ related_topics' = related.value
             /\ UNCHANGED <<current_step, content, quiz_state, mastery_achieved,
                            chat_history, next_clicks>>
        ELSE /\ Report(called, {}, <<result>>, <<>>)
             /\ IF result.mastery
                THEN render_mastery_section(event, i, related.value)
                ELSE render_retry_section(event, result)

\* one run of handle_evaluate; event is "none" or the button clicked, i the
\* related topic whose "Learn" button it was, relateds what the service can
\* answer to a related-topics request
handle_evaluate(event, i, eval_response, relateds) ==
    /\ IF event = "none" THEN Rerun /\ current_step = EVALUATE ELSE Event(event)
    /\ LET ev == evaluate(quiz, user_answers, eval_response)
       IN  IF ev.raised
           THEN /\ Report({"eval"}, IF ev.requested THEN {"eval"} ELSE {},
                          <<>>, <<>>)
                /\ Abort({})
                /\ initialize_session_state
                /\ UNCHANGED <<current_step, content, quiz_state, mastery_achieved,
                               chat_history, related_topics, next_clicks>>
           ELSE IF related_wanted(ev.value.mastery, related_topics)
           THEN \E related_response \in relateds :
                    render_quiz_results(event, i, ev.value,
                                        get_related_topics(related_response),
                                        {"eval", "related"})
           ELSE render_quiz_results(event, i, ev.value,
                                    [raised |-> FALSE, value |-> related_topics],
                                    {"eval"})
    /\ UNCHANGED keys

\* handle_evaluate with the responses the services can give
evaluate_run(event, feedbacks, relateds) ==
    \E eval_response \in feedbacks :
        \E i \in (IF event = "learn" THEN 1 .. Len(related_topics) ELSE {0}) :
            handle_evaluate(event, i, eval_response, relateds)

show_evaluate == evaluate_run("none", FeedbackResponses, RelatedResponses)
click_retry == evaluate_run("retry", FeedbackResponses, RelatedResponses)
click_study_again == evaluate_run("study_again", FeedbackResponses, RelatedResponses)
click_learn == evaluate_run("learn", FeedbackResponses, RelatedResponses)
click_another == evaluate_run("another", FeedbackResponses, RelatedResponses)

Next ==
    \/ main_no_key
    \/ sidebar_input
    \/ show_topic_input
    \/ start_learning
    \/ fetch_content
    \/ show_learning
    \/ click_previous
    \/ click_next
    \/ click_take_quiz
    \/ ask_question
    \/ generate
    \/ show_take_quiz
    \/ submit_quiz
    \/ show_evaluate
    \/ click_retry
    \/ click_study_again
    \/ click_learn
    \/ click_another

\* Every kind of response of the services, with quizzes of up to ShortQuiz
\* questions; the key comes from the sidebar.
Spec == Init /\ [][Next]_vars

\* ------------------------------------------ long quizzes, services answer
\* The key comes from the environment, the services answer every call, the
\* search finds no video and the learner goes straight to the quiz; quizzes
\* have up to MaxQuiz questions.
AnsweredTopic == Content(<<WS, "Binary Search", WS>>)
AnsweredFeedback == {Content(<<"feedback">>)}
AnsweredRelated ==
    {NoContent, Content(<< <<"Sure">>, <<WS, "1", ".", WS, "Sorting", WS>> >>)}

long_start_learning == handle_topic_input(<<"binary search">>, AnsweredTopic)

long_fetch_content ==
    handle_fetch_content([raised |-> FALSE, results |-> <<>>],
                         Content(<<"doc">> \o topic))

long_generate ==
    \E n \in 0 .. MaxQuiz : handle_generate_quiz(Content(<<Value(QuizOf(n))>>))

long_show_evaluate == evaluate_run("none", AnsweredFeedback, AnsweredRelated)
long_click_retry == evaluate_run("retry", AnsweredFeedback, AnsweredRelated)
long_click_study_again ==
    evaluate_run("study_again", AnsweredFeedback, AnsweredRelated)
long_click_learn == evaluate_run("learn", AnsweredFeedback, AnsweredRelated)
long_click_another == evaluate_run("another", AnsweredFeedback, AnsweredRelated)

InitQuiz == Start("key")

NextQuiz ==
    \/ show_topic_input
    \/ long_start_learning
    \/ long_fetch_content
    \/ show_learning
    \/ click_take_quiz
    \/ long_generate
    \/ show_take_quiz
    \/ submit_quiz
    \/ long_show_evaluate
    \/ long_click_retry
    \/ long_click_study_again
    \/ long_click_learn
    \/ long_click_another

SpecQuiz == InitQuiz /\ [][NextQuiz]_vars

\* --------------------------------------------- the evaluation, by itself
\* EvaluatorAgent.evaluate applied to every quiz of up to EvalQuiz questions
\* with two options each and every answer mapping over its indices,
\* unanswered questions included.
EvalQuizzes ==
    UNION {{[type |-> "array", items |-> [k \in 1 .. n |-> Question(k, c[k])]] :
                c \in [1 .. n -> {0, 1}]} : n \in 0 .. EvalQuiz}

EvalAnswers(n) == UNION {[D -> {0, 1}] : D \in SUBSET Indices(n)}

InitEval ==
    /\ env_key = "key"
    /\ sidebar_key = ""
    /\ present = SessionKeys
    /\ current_step = EVALUATE
    /\ topic = <<"Binary Search">>
    /\ videos = <<>>
    /\ current_video_index = 0
    /\ documentation = DOC_NOT_AVAILABLE
    /\ quiz \in EvalQuizzes
    /\ user_answers \in EvalAnswers(Len(quiz.items))
    /\ weak_areas = <<>>
    /\ quiz_attempt = 1
    /\ mastery_achieved = FALSE
    /\ chat_history = <<>>
    /\ related_topics = <<>>
    /\ pc = "rerun"
    /\ widgets = {}
    /\ aborted = FALSE
    /\ results = <<>>
    /\ calls = {}
    /\ failed = {}
    /\ hint = <<>>
    /\ next_clicks = -1

\* results = evaluate(quiz, user_answers, documentation)
apply_evaluate ==
    /\ pc = "rerun"
    /\ \E response \in FeedbackResponses :
           LET ev == evaluate(quiz, user_answers, response)
           IN  /\ Report({"eval"}, IF ev.raised THEN {"eval"} ELSE {},
                         IF ev.raised THEN <<>> ELSE <<ev.value>>, <<>>)
               /\ aborted' = ev.raised
    /\ pc' = "idle"
    /\ UNCHANGED <<keys, session, widgets, next_clicks>>

NextEval == apply_evaluate

SpecEval == InitEval /\ [][NextEval]_vars

\* ================================================================ claims
\* the question indices answered wrongly: answers.get(i, -1) differs from
\* the question's correct index
WrongIndices(q, a) ==
    {i \in Indices(Len(q.items)) : Get(a, i, -1) # q.items[i + 1].correct}

\* the j-th wrongly answered index, in quiz order
NthWrong(q, a, j) ==
    CHOOSE i \in WrongIndices(q, a) :
        Cardinality({w \in WrongIndices(q, a) : w < i}) = j - 1

\* the texts of the first n wrongly answered questions, in quiz order
WrongTexts(q, a, n) ==
    [j \in 1 .. Min(n, Cardinality(WrongIndices(q, a))) |->
        q.items[NthWrong(q, a, j) + 1].question]

\* the script run deleted the session's keys
SessionReset == present = SessionKeys /\ present' # SessionKeys

\* the last run evaluated the quiz, the result was no mastery, and the run
\* was not aborted
FailedEvaluation == results # <<>> /\ ~results[1].mastery /\ ~aborted

\* C1: quiz_attempt starts at 1, grows by exactly 1 in the Evaluate run that
\* follows a submission and finds no mastery, is left alone by every other
\* run (the re-runs of Evaluate that process a click on the results page
\* among them), and goes back to 1 only in a session reset.
C1_AttemptCountsFailedEvaluations ==
    /\ present = {} => quiz_attempt = 1
    /\ [][IF SessionReset
          THEN quiz_attempt' = 1
          ELSE IF /\ pc = "rerun"
                  /\ current_step = EVALUATE
                  /\ results' # <<>>
                  /\ ~results'[1].mastery
                  /\ ~aborted'
          THEN quiz_attempt' = quiz_attempt + 1
          ELSE quiz_attempt' = quiz_attempt]_vars

\* C2: for a quiz with total > 0, evaluate returns score = the number of
\* indices whose answer (or -1) equals the correct index, total = len(quiz),
\* percentage = 100 * score / total, and mastery exactly when the percentage
\* is at least 80, that is when 5 * score >= 4 * total.
C2_ScoreAndMastery ==
    (results # <<>> /\ Len(quiz.items) > 0) =>
        LET r == results[1]
            right == {i \in Indices(Len(quiz.items)) :
                         Get(user_answers, i, -1) = quiz.items[i + 1].correct}
        IN  /\ r.score = Cardinality(right)
            /\ r.total = Len(quiz.items)
            /\ r.percentage.den > 0
            /\ r.percentage.num * r.total = 100 * r.score * r.percentage.den
            /\ r.mastery <=> (r.percentage.num >= 80 * r.percentage.den)
            /\ r.mastery <=> (5 * r.score >= 4 * r.total)

\* 4 of 5 answered correctly: mastery
C2_Witness ==
    /\ results # <<>>
    /\ results[1].score = 4
    /\ results[1].total = 5
    /\ results[1].mastery

\* C3: an agent whose service call fails in a script run does not abort the
\* run: the failure is caught and the handler completes.
C3_AgentFailureIsCaught == failed # {} => ~aborted

\* the stored quiz is a list of question objects that have the fields
WellFormedQuiz ==
    /\ quiz.type = "array"
    /\ \A k \in 1 .. Len(quiz.items) :
           /\ quiz.items[k].kind = "dict"
           /\ {"question", "options", "correct"} \subseteq quiz.items[k].has

\* C4: a quiz-generation response that is not a well-formed list of question
\* objects leaves the empty list in the session: the stored quiz is the
\* empty list or a well-formed list.
C4_MalformedQuizIsEmpty == quiz = EmptyList \/ WellFormedQuiz

\* C5: an Evaluate run on an empty quiz whose feedback request is answered
\* computes score 0, total 0, percentage 0 and no mastery, stores the empty
\* weak_areas and shows the retry section; the run is aborted only when the
\* feedback request raised.
C5_EmptyQuizEvaluation ==
    (current_step = EVALUATE /\ pc = "idle" /\ "eval" \in calls
     /\ quiz.items = <<>>) =>
        IF "eval" \in failed
        THEN aborted
        ELSE /\ ~aborted
             /\ results # <<>>
             /\ results[1].score = 0
             /\ results[1].total = 0
             /\ results[1].percentage.num = 0
             /\ ~results[1].mastery
             /\ results[1].weak_areas = <<>>
             /\ weak_areas = <<>>
             /\ widgets = {"retry", "study_again"}

\* a session with an empty quiz went from TakeQuiz to the retry section
C5_Witness ==
    /\ current_step = EVALUATE
    /\ pc = "idle"
    /\ quiz = EmptyList
    /\ results # <<>>
    /\ ~results[1].mastery
    /\ widgets = {"retry", "study_again"}
    /\ weak_areas = <<>>

\* C6: the weak_areas evaluate returns are the texts of exactly the
\* questions whose answer (or -1, when unanswered) differs from the correct
\* index, in quiz order; their number plus the score is the total.
C6_WeakAreasAreTheWrongAnswers ==
    results # <<>> =>
        /\ results[1].weak_areas = WrongTexts(quiz, user_answers, Len(quiz.items))
        /\ Len(results[1].weak_areas) + results[1].score = results[1].total

\* an unanswered question is among several wrong ones, another is right
C6_Witness ==
    /\ results # <<>>
    /\ DOMAIN user_answers # Indices(Len(quiz.items))
    /\ Len(results[1].weak_areas) >= 2
    /\ results[1].score >= 1

\* C7: weak_areas never holds more than 3 entries; after a failed evaluation
\* it holds the first min(3, k) wrongly answered question texts of the quiz
\* just evaluated, in quiz order; and a quiz-generation call is given the
\* stored list as its hint.
C7_WeakAreasKept ==
    /\ Len(weak_areas) <= 3
    /\ FailedEvaluation => weak_areas = WrongTexts(quiz, user_answers, 3)
    /\ "quiz" \in calls =>
           hint = (IF weak_areas # <<>> THEN <<weak_areas>> ELSE <<>>)

\* four questions were answered wrongly and three are kept
C7_Witness ==
    /\ FailedEvaluation
    /\ Len(results[1].weak_areas) = 4
    /\ Len(weak_areas) = 3

\* C8: once the results page of a mastered quiz is shown, a further run of
\* the Evaluate handler makes no related-topics request and leaves
\* related_topics as it is, unless it resets the session.
C8_RelatedTopicsRequestedOnce ==
    [][(current_step = EVALUATE /\ pc = "idle" /\ results # <<>>
        /\ results[1].mastery /\ ~aborted) =>
            /\ "related" \notin calls'
            /\ related_topics' = related_topics \/ SessionReset]_vars

\* C9: a run of the FetchContent handler with videos non-empty makes no
\* video search and leaves videos and current_video_index alone, with
\* documentation non-empty makes no documentation request and leaves
\* documentation alone, and in either case goes on to Learning.
C9_FetchContentIsIdempotent ==
    [][(pc = "rerun" /\ api_key # "" /\ current_step = FETCH_CONTENT) =>
            /\ videos # <<>> =>
                   /\ "video" \notin calls'
                   /\ videos' = videos
                   /\ current_video_index' = current_video_index
            /\ documentation # <<>> =>
                   /\ "doc" \notin calls'
                   /\ documentation' = documentation
            /\ (videos # <<>> \/ documentation # <<>>) =>
                   current_step' = LEARNING]_vars

\* C10: with L > 0 videos, current_video_index is within 0 .. L-1, is
\* N mod L after the fetch and N clicks on "Next Video" (0 after the fetch),
\* and a click on "Previous Video" at index 0 gives L - 1.
C10_VideoIndexWraps ==
    /\ [](videos # <<>> =>
            /\ current_video_index \in 0 .. (Len(videos) - 1)
            /\ next_clicks >= 0 =>
                   current_video_index = next_clicks % Len(videos))
    /\ [][(click_previous /\ current_video_index = 0) =>
              current_video_index' = Len(videos) - 1]_vars

\* two videos, two clicks on "Next Video": back at the first
C10_Witness ==
    /\ Len(videos) = 2
    /\ next_clicks = 2
    /\ current_video_index = 0

\* the edges of the transition table
TransitionTable ==
    {<<TOPIC_INPUT, FETCH_CONTENT>>, <<FETCH_CONTENT, LEARNING>>,
     <<LEARNING, GENERATE_QUIZ>>, <<GENERATE_QUIZ, TAKE_QUIZ>>,
     <<TAKE_QUIZ, EVALUATE>>, <<EVALUATE, GENERATE_QUIZ>>,
     <<EVALUATE, LEARNING>>, <<EVALUATE, FETCH_CONTENT>>,
     <<EVALUATE, TOPIC_INPUT>>}

\* C11: current_step is always one of the six states, and every step that
\* changes it follows an edge of the transition table.
C11_StepsFollowTheTable ==
    /\ [](current_step \in AppState)
    /\ [][current_step' # current_step =>
              <<current_step, current_step'>> \in TransitionTable]_vars

\* "Study Again" was processed: Evaluate -> Learning
C11_Witness ==
    /\ current_step = LEARNING
    /\ pc = "rerun"
    /\ results # <<>>
    /\ ~results[1].mastery

\* at least 80 percent of a non-empty quiz q is answered correctly by a
Mastered(q, a) ==
    LET right == {i \in Indices(Len(q.items)) :
                     i \in DOMAIN a /\ a[i] = q.items[i + 1].correct}
    IN  Len(q.items) > 0 /\ 5 * Cardinality(right) >= 4 * Len(q.items)

\* C12: a step that leaves Evaluate for GenerateQuiz or Learning is taken
\* only when the evaluation of the current quiz and answers is not mastery,
\* one that leaves for FetchContent or TopicInput only when it is mastery;
\* every run of the Evaluate handler for the same quiz and answers computes
\* the same outcome.
C12_ExitsFollowMastery ==
    /\ [](current_step = EVALUATE /\ results # <<>> =>
              results[1].mastery = Mastered(quiz, user_answers))
    /\ [][(current_step = EVALUATE /\ current_step' # EVALUATE) =>
              /\ results' # <<>>
              /\ results'[1].mastery = Mastered(quiz, user_answers)
              /\ results # <<>> /\ results[1].mastery = results'[1].mastery
              /\ current_step' \in {GENERATE_QUIZ, LEARNING} =>
                     ~results'[1].mastery
              /\ current_step' \in {FETCH_CONTENT, TOPIC_INPUT} =>
                     results'[1].mastery]_vars

\* 3 of 4 is no mastery: "Retake Quiz" was processed
C12_Witness ==
    /\ current_step = GENERATE_QUIZ
    /\ pc = "rerun"
    /\ results # <<>>
    /\ results[1].score = 3
    /\ results[1].total = 4
    /\ ~results[1].mastery

\* every field but current_step and topic is at its default
OtherFieldsAtDefaults ==
    /\ videos = <<>>
    /\ current_video_index = 0
    /\ documentation = <<>>
    /\ quiz = EmptyList
    /\ user_answers = <<>>
    /\ weak_areas = <<>>
    /\ quiz_attempt = 1
    /\ mastery_achieved = FALSE
    /\ chat_history = <<>>
    /\ related_topics = <<>>

\* C13: the reset of "Learn Another Topic" leaves current_step = TopicInput,
\* the topic empty and every other field at its default; the reset of a
\* related topic's "Learn" leaves current_step = FetchContent, topic = one of
\* the related topics shown and every other field at its default; and the
\* handler run that is due after a reset starts from these values.
C13_ResetGivesDefaults ==
    /\ [][SessionReset =>
              /\ pc' = "rerun"
              /\ click_another \/ click_learn
              /\ click_another =>
                     /\ current_step' = TOPIC_INPUT
                     /\ topic' = <<>>
                     /\ OtherFieldsAtDefaults'
              /\ click_learn =>
                     /\ current_step' = FETCH_CONTENT
                     /\ topic' \in Range(related_topics)
                     /\ OtherFieldsAtDefaults']_vars
    /\ []((Rerun /\ present # SessionKeys) =>
              /\ OtherFieldsAtDefaults
              /\ \/ current_step = TOPIC_INPUT /\ topic = <<>>
                 \/ current_step = FETCH_CONTENT /\ topic # <<>>)

\* a related topic was chosen: the run of FetchContent is due
C13_Witness ==
    /\ Rerun
    /\ present = {"current_step", "topic"}
    /\ current_step = FETCH_CONTENT
    /\ topic = <<"Sorting">>
    /\ OtherFieldsAtDefaults

\* C14: while neither the environment nor the sidebar holds a key, a script
\* run calls no agent, renders no widget of a handler and leaves the session
\* state as it is (not initialised if it was not); a step that initialises
\* or changes the session state is taken with a non-empty key.
C14_NoKeyNoStateMachine ==
    /\ [][api_key = "" =>
              /\ UNCHANGED session
              /\ pc = "rerun" => (calls' = {} /\ widgets' = {} /\ pc' = "idle")]_vars
    /\ [](api_key = "" /\ pc = "idle" => calls = {} /\ widgets = {})

\* the key was cleared while learning: the page of the handler is gone and
\* the session state is as it was
C14_Witness ==
    /\ api_key = ""
    /\ pc = "idle"
    /\ present = SessionKeys
    /\ current_step = LEARNING
    /\ documentation # <<>>
    /\ widgets = {}

\* C15: "Start Learning" with an empty text calls no agent, leaves the
\* session state as it is and shows the form again; a step that changes
\* topic or current_step in TopicInput is a submission of a non-empty text,
\* which calls the topic agent, stores the stripped answer (or "General
\* Topic") and moves to FetchContent.
C15_EmptyTopicIsRefused ==
    /\ [][(\E r \in TopicResponses : handle_topic_input(<<>>, r)) =>
              /\ calls' = {}
              /\ UNCHANGED session
              /\ pc' = "idle"
              /\ ~aborted'
              /\ "start_learning" \in widgets']_vars
    /\ [][(current_step = TOPIC_INPUT
           /\ (topic' # topic \/ current_step' # current_step)) =>
              /\ \E u \in UserTopics \ {<<>>}, r \in TopicResponses :
                     handle_topic_input(u, r)
              /\ calls' = {"topic"}
              /\ current_step' = FETCH_CONTENT
              /\ topic' \in {<<"Binary Search">>, GENERAL_TOPIC}]_vars

\* an empty text was submitted: the form and the request to enter a topic
C15_Witness ==
    /\ current_step = TOPIC_INPUT
    /\ pc = "idle"
    /\ widgets = {"start_learning", "please_enter_a_topic"}
    /\ calls = {}
    /\ topic = <<>>

\* C16: related_topics never holds more than 5 entries, and when it is not
\* empty the session is in Evaluate and its quiz and answers evaluate to
\* mastery; in every other state it is empty.
C16_RelatedTopicsOnlyAtMastery ==
    /\ Len(related_topics) <= 5
    /\ related_topics # <<>> =>
           /\ current_step = EVALUATE
           /\ Mastered(quiz, user_answers)
           /\ "related_topics" \in present

\* the service listed six topics: five are kept
C16_Witness ==
    /\ current_step = EVALUATE
    /\ Len(related_topics) = 5
    /\ results # <<>>
    /\ results[1].mastery

\* C17: the run that processes "Study Again" on the page of a failed
\* evaluation moves to Learning and leaves weak_areas, quiz_attempt, videos,
\* current_video_index, documentation, chat_history, quiz and user_answers
\* as they were when the page was shown.
C17_StudyAgainChangesOnlyTheStep ==
    [][(long_click_study_again /\ ~aborted') =>
           /\ current_step' = LEARNING
           /\ UNCHANGED <<weak_areas, quiz_attempt, videos, current_video_index,
                          documentation, chat_history, quiz, user_answers>>]_vars

\* C18: every run of the GenerateQuiz handler calls the quiz agent with the
\* stored weak_areas as the hint exactly when that list is not empty, stores
\* the list the agent returns as quiz, empties user_answers, leaves
\* weak_areas, quiz_attempt, documentation and chat_history as they are and
\* moves to TakeQuiz.
C18_GenerateQuizRun ==
    [][(Rerun /\ current_step = GENERATE_QUIZ) =>
           /\ "quiz" \in calls'
           /\ hint' = (IF weak_areas # <<>> THEN <<weak_areas>> ELSE <<>>)
           /\ \E r \in QuizResponses :
                  /\ ~generate_quiz(r).raised
                  /\ quiz' = generate_quiz(r).value
           /\ user_answers' = <<>>
           /\ UNCHANGED <<weak_areas, quiz_attempt, documentation, chat_history>>
           /\ current_step' = TAKE_QUIZ]_vars

\* C19: the keys of user_answers are always indices of the current quiz, and
\* in Evaluate, which is entered from TakeQuiz only, user_answers has an
\* entry for every index of the quiz, each an index into the options of its
\* question.
C19_AnswersFitTheQuiz ==
    /\ DOMAIN user_answers \subseteq Indices(Len(quiz.items))
    /\ current_step = EVALUATE =>
           /\ DOMAIN user_answers = Indices(Len(quiz.items))
           /\ \A i \in Indices(Len(quiz.items)) :
                  /\ user_answers[i] >= 0
                  /\ user_answers[i] < Len(quiz.items[i + 1].options)

\* a quiz of two questions was submitted, a different option chosen for each
C19_Witness ==
    /\ current_step = EVALUATE
    /\ pc = "rerun"
    /\ Len(quiz.items) = 2
    /\ DOMAIN user_answers = {0, 1}
    /\ user_answers[0] # user_answers[1]

\* C20: a step changes chat_history only by appending one {question, answer}
\* pair in a run of the chatbot in Learning whose request was answered, the
\* entries before it staying as they are and in their order, or by emptying
\* it in a session reset; every answered question appends one pair.
C20_ChatHistoryIsAppendOnly ==
    /\ [][\/ chat_history' = chat_history
          \/ SessionReset /\ chat_history' = <<>>
          \/ /\ current_step = LEARNING
             /\ current_step' = LEARNING
             /\ "qa" \in calls'
             /\ failed' = {}
             /\ Len(chat_history') = Len(chat_history) + 1
             /\ SubSeq(chat_history', 1, Len(chat_history)) = chat_history
             /\ DOMAIN chat_history'[Len(chat_history')] = {"question", "answer"}
             /\ chat_history'[Len(chat_history')].question \in UserQuestions]_vars
    /\ [][(ask_question /\ ~aborted') =>
              Len(chat_history') = Len(chat_history) + 1]_vars

\* two questions were answered, a quiz was failed, the next quiz is shown
C20_Witness ==
    /\ Len(chat_history) = 2
    /\ current_step = TAKE_QUIZ
    /\ quiz_attempt > 1

\* the buttons of the results page that leave Evaluate
EvaluateExits == {"retry", "study_again", "learn", "another"}

\* C21: no page is a dead end, whatever quiz the model returned: a page left
\* by a script run in which no service failed, the stored quiz being a list
\* of question objects that have their fields, shows at least one widget the
\* user can act on, and in Evaluate it shows an exit (retry or study again,
\* or a related topic or another topic), a question whose correct index is
\* outside its options being graded as answered wrongly.
C21_NoDeadEnd ==
    (pc = "idle" /\ api_key # "" /\ failed = {} /\ WellFormedQuiz) =>
        /\ widgets # {}
        /\ current_step = EVALUATE =>
               /\ widgets \cap EvaluateExits # {}
               /\ results # <<>>
               /\ \A k \in 1 .. Len(quiz.items) :
                      ~IndexOk(quiz.items[k].correct, Len(quiz.items[k].options))
                          => quiz.items[k].question \in Range(results[1].weak_areas)

\* the states from Learning onward
StudyStates == {LEARNING, GENERATE_QUIZ, TAKE_QUIZ, EVALUATE}

\* what a fetch for the topic t can store as videos and as documentation
VideosFor(t) == {fetch_videos(search, VIDEO_LIMIT) : search \in SearchOutcomes(t)}
DocsFor(t) ==
    {generate_docs(r).value : r \in {d \in DocResponses(t) : ~d.raised}}

\* C22: from Learning onward the stored videos and documentation are results
\* of the requests made for the current topic, also after the switch to a
\* related topic; and whenever the topic changes, no videos, documentation,
\* quiz, answers, weak areas or chat history are left in the session, which
\* holds none of them either while the content of the topic is being fetched.
C22_ContentBelongsToTheTopic ==
    /\ [](current_step \in StudyStates =>
              /\ videos \in VideosFor(topic)
              /\ \A k \in 1 .. Len(videos) : videos[k].title = topic
              /\ documentation \in DocsFor(topic))
    /\ [](current_step = FETCH_CONTENT =>
              /\ videos \in VideosFor(topic)
              /\ documentation = <<>>
              /\ quiz = EmptyList
              /\ user_answers = <<>>
              /\ weak_areas = <<>>
              /\ chat_history = <<>>)
    /\ [][topic' # topic =>
              /\ videos' = <<>>
              /\ documentation' = <<>>
              /\ quiz' = EmptyList
              /\ user_answers' = <<>>
              /\ weak_areas' = <<>>
              /\ chat_history' = <<>>]_vars

\* the learner mastered a topic, switched to the related topic "Sorting",
\* studied its videos and documentation, asked a question and failed a quiz
C22_Witness ==
    /\ current_step = EVALUATE
    /\ topic = <<"Sorting">>
    /\ videos # <<>>
    /\ documentation = <<"doc", "Sorting">>
    /\ chat_history # <<>>
    /\ weak_areas # <<>>

====
